---- MODULE Spec2Model ----
(***************************************************************************)
(* STM32F4 GPIO register programming (soc_gpio.c): the pin-function        *)
(* classifiers, stm32_gpio_configure, stm32_gpio_set, stm32_gpio_get and   *)
(* stm32_gpio_enable_int, as a state machine over the memory-mapped        *)
(* register blocks.  A register is a 32-bit word, held as the set of the    *)
(* positions of its 1 bits, and                                            *)
(* every volatile read and write of a register is a step of its own.       *)
(***************************************************************************)
EXTENDS Integers, Sequences, FiniteSets, TLC

VARIABLES gpio, syscfg, clock, pc, args, loc, tmpreg, ret, log, ncalls, pre, after, rep, lastConf, lastVal, pincfg, raced

vars == <<gpio, syscfg, clock, pc, args, loc, tmpreg, ret, log, ncalls, pre, after, rep, lastConf, lastVal, pincfg, raced>>

(***************************************************************************)
(* 32-bit words (u32_t) and the C operators the source applies to them.    *)
(***************************************************************************)
Bits == 0..31

\* The word holding the small non-negative integer n (n < 2^31).
Word(n) == {i \in 0..30 : (n \div (2 ^ i)) % 2 = 1}

\* Bit i of word a, as 0 or 1.
BitAt(a, i) == IF i \in a THEN 1 ELSE 0

\* a << n on 32 bits: bits shifted past bit 31 are dropped.  The source shifts
\* int constants into bit 31 (0x3 << 30, 1 << 31); the compiler this code is
\* built with defines signed << as the shift of the bit pattern.
Shl(a, n) == {i + n : i \in {j \in a : j + n <= 31}}

\* a >> n on 32 bits (logical).
Shr(a, n) == {i - n : i \in {j \in a : j >= n}}

BitAnd(a, b) == a \cap b

BitOr(a, b) == a \cup b

BitXor(a, b) == (a \ b) \cup (b \ a)

BitNot(a) == Bits \ a

\* The value of the w-bit field of a that starts at bit s.
Field(a, s, w) == LET RECURSIVE Val(_)
                      Val(k) == IF k = w THEN 0 ELSE BitAt(a, s + k) * (2 ^ k) + Val(k + 1)
                  IN  Val(0)

(***************************************************************************)
(* The pin-function enumeration and the four classifiers.                  *)
(***************************************************************************)
BiasFuncs == {"BIAS_HIGH_IMPEDANCE", "BIAS_PULL_UP", "BIAS_PULL_DOWN"}

DriveFuncs == {"DRIVE_PUSH_PULL", "DRIVE_PUSH_UP", "DRIVE_PUSH_DOWN",
               "DRIVE_OPEN_DRAIN", "DRIVE_OPEN_UP", "DRIVE_OPEN_DOWN"}

AfFuncs == {"AF_PUSH_PULL", "AF_PUSH_UP", "AF_PUSH_DOWN",
            "AF_OPEN_DRAIN", "AF_OPEN_UP", "AF_OPEN_DOWN"}

\* The 16 defined variants, and one value outside the enumeration.
PinFuncs == BiasFuncs \cup DriveFuncs \cup AfFuncs \cup {"ANALOG"}

Confs == PinFuncs \cup {"UNDEFINED"}

\* __func_to_mode with the analog variant falling to the default label.
__func_to_mode_AnalogAsDefault(func) ==
    CASE func \in BiasFuncs -> 0
      [] func \in DriveFuncs -> 1
      [] func \in AfFuncs -> 2
      [] OTHER -> 0

__func_to_mode(func) ==
    CASE func \in BiasFuncs -> 0
      [] func \in DriveFuncs -> 1
      [] func \in AfFuncs -> 2
      [] func = "ANALOG" -> 3
      [] OTHER -> 0

__func_to_otype(func) ==
    CASE func \in {"DRIVE_OPEN_DRAIN", "DRIVE_OPEN_UP", "DRIVE_OPEN_DOWN",
                   "AF_OPEN_DRAIN", "AF_OPEN_UP", "AF_OPEN_DOWN"} -> 1
      [] OTHER -> 0

\* __func_to_ospeed without the case label of the plain push-pull variant.
__func_to_ospeed_NoPushPull(func) ==
    CASE func \in {"DRIVE_PUSH_UP", "DRIVE_PUSH_DOWN",
                   "DRIVE_OPEN_DRAIN", "DRIVE_OPEN_UP", "DRIVE_OPEN_DOWN",
                   "AF_PUSH_PULL", "AF_PUSH_UP", "AF_PUSH_DOWN",
                   "AF_OPEN_DRAIN", "AF_OPEN_UP", "AF_OPEN_DOWN"} -> 2
      [] OTHER -> 0

__func_to_ospeed(func) ==
    CASE func \in {"DRIVE_PUSH_PULL", "DRIVE_PUSH_UP", "DRIVE_PUSH_DOWN",
                   "DRIVE_OPEN_DRAIN", "DRIVE_OPEN_UP", "DRIVE_OPEN_DOWN",
                   "AF_PUSH_PULL", "AF_PUSH_UP", "AF_PUSH_DOWN",
                   "AF_OPEN_DRAIN", "AF_OPEN_UP", "AF_OPEN_DOWN"} -> 2
      [] OTHER -> 0

__func_to_pupd(func) ==
    CASE func \in {"DRIVE_PUSH_PULL", "DRIVE_OPEN_DRAIN", "AF_PUSH_PULL",
                   "AF_OPEN_DRAIN", "BIAS_HIGH_IMPEDANCE", "ANALOG"} -> 0
      [] func \in {"DRIVE_PUSH_UP", "DRIVE_OPEN_UP", "AF_PUSH_UP",
                   "AF_OPEN_UP", "BIAS_PULL_UP"} -> 1
      [] func \in {"DRIVE_PUSH_DOWN", "DRIVE_OPEN_DOWN", "AF_PUSH_DOWN",
                   "AF_OPEN_DOWN", "BIAS_PULL_DOWN"} -> 2
      [] OTHER -> 0

(***************************************************************************)
(* State.                                                                  *)
(*   gpio     struct stm32f4x_gpio: mode, otype, ospeed, pupdr, afr[2],    *)
(*            bsr (the last word written to it), idr, odr                  *)
(*   syscfg   struct stm32f4x_syscfg: exticr1..exticr4                     *)
(*   clock    whether the SYSCFG peripheral clock has been switched on     *)
(*   pc, args, loc, tmpreg, ret   per execution context (task, interrupt   *)
(*            handler): position in the running function, its arguments,   *)
(*            its locals and its return value                              *)
(*   log      per context, the register accesses and external calls of     *)
(*            the running (or last finished) call, in order                *)
(*   ncalls   calls completed, per context                                 *)
(*   pre      registers and clock at the entry of the task's call          *)
(*   after    gpio at the return of the task's call before a repetition    *)
(*   rep      how many times the task repeated its last call               *)
(*   lastConf, lastVal   per pin, the function of the last completed       *)
(*            configure ("none") and the value of the last set call (-1)   *)
(*   pincfg   the int the caller of stm32_gpio_flags_to_conf passes the    *)
(*            address of ("UNWRITTEN" until it is stored to)               *)
(*   raced    the registers between whose read and write-back by a         *)
(*            configure call of the task the handler ran a configure call  *)
(***************************************************************************)
Ctx == {"task", "isr"}

Pins == 0..15

AltFuncs == 0..15

Ports == 0..15

\* Pin arguments of stm32_gpio_enable_int: 16 and 17 are out of range.
IntPins == 0..17

Values == {0, 1, 2}

EINVAL == 22

Zero32 == {}

Ones32 == Bits

Low16 == 0..15

\* Register contents a run may start from.
Patterns == <<Zero32, Ones32, {i \in Bits : i % 2 = 1}, {i \in Bits : i % 3 = 0}>>

Pat(k, j) == Patterns[((k + j) % Len(Patterns)) + 1]

\* k = 0 is the reset state; otherwise register j starts as pattern k + j.
InitGpio(k) ==
    IF k = 0
    THEN [mode |-> Zero32, otype |-> Zero32, ospeed |-> Zero32, pupdr |-> Zero32,
          afr |-> <<Zero32, Zero32>>, bsr |-> Zero32, idr |-> Zero32, odr |-> Zero32]
    ELSE [mode |-> Pat(k, 0), otype |-> Pat(k, 1), ospeed |-> Pat(k, 2),
          pupdr |-> Pat(k, 3), afr |-> <<Pat(k, 1), Pat(k, 2)>>, bsr |-> Zero32,
          idr |-> BitAnd(Pat(k, 3), Low16), odr |-> BitAnd(Pat(k, 0), Low16)]

InitSyscfg(k) ==
    IF k = 0
    THEN [exticr1 |-> Zero32, exticr2 |-> Zero32, exticr3 |-> Zero32, exticr4 |-> Zero32]
    ELSE [exticr1 |-> BitAnd(Pat(k, 0), Low16), exticr2 |-> BitAnd(Pat(k, 1), Low16),
          exticr3 |-> BitAnd(Pat(k, 2), Low16), exticr4 |-> BitAnd(Pat(k, 3), Low16)]

NoArgs == [op |-> "none", pin |-> 0, conf |-> "UNDEFINED", altf |-> 0, value |-> 0, port |-> 0,
           flags |-> {}, dest |-> "null"]

NoLoc == [mode |-> 0, otype |-> 0, ospeed |-> 0, pupd |-> 0, shift |-> 0, exticr |-> "none"]

Snapshot == [gpio |-> gpio, syscfg |-> syscfg, clock |-> clock]

Init ==
    /\ \E k \in 0..Len(Patterns) :
          /\ gpio = InitGpio(k)
          /\ syscfg = InitSyscfg(k)
          /\ pre = [gpio |-> InitGpio(k), syscfg |-> InitSyscfg(k), clock |-> FALSE]
          /\ after = InitGpio(k)
    /\ clock = FALSE
    /\ pc = [c \in Ctx |-> "idle"]
    /\ args = [c \in Ctx |-> NoArgs]
    /\ loc = [c \in Ctx |-> NoLoc]
    /\ tmpreg = [c \in Ctx |-> Zero32]
    /\ ret = [c \in Ctx |-> 0]
    /\ log = [c \in Ctx |-> <<>>]
    /\ ncalls = [c \in Ctx |-> 0]
    /\ rep = 0
    /\ lastConf = [p \in Pins |-> "none"]
    /\ lastVal = [p \in Pins |-> -1]
    /\ pincfg = "UNWRITTEN"
    /\ raced = {}

Active(c) == pc[c] \notin {"idle", "done"}

\* An interrupt handler runs to completion before the task continues.
MayRun(c) == c = "isr" \/ ~Active("isr")

\* Entry of a function in context c: arguments, locals, a fresh access log.
Enter(c, a, l, first) ==
    /\ pc[c] \in {"idle", "done"}
    /\ MayRun(c)
    /\ args' = [args EXCEPT ![c] = a]
    /\ loc' = [loc EXCEPT ![c] = l]
    /\ tmpreg' = [tmpreg EXCEPT ![c] = Zero32]
    /\ log' = [log EXCEPT ![c] = <<>>]
    /\ pc' = [pc EXCEPT ![c] = first]
    /\ pre' = IF c = "task" THEN Snapshot ELSE pre
    /\ UNCHANGED <<gpio, syscfg, clock, ret, ncalls, lastConf, pincfg>>

Goto(c, next) == pc' = [pc EXCEPT ![c] = next]

Logged(c, kind, name) == log' = [log EXCEPT ![c] = Append(@, <<kind, name>>)]

\* return v
Return(c, v) ==
    /\ ret' = [ret EXCEPT ![c] = v]
    /\ pc' = [pc EXCEPT ![c] = "done"]
    /\ ncalls' = [ncalls EXCEPT ![c] = @ + 1]

(***************************************************************************)
(* stm32_gpio_flags_to_conf                                                *)
(***************************************************************************)
\* The bits of the generic GPIO flags word the function looks at: direction in
\* bit 0 (output when set), pull in bits 8 and 9 (up, down).
GPIO_DIR_MASK == {0}

GPIO_DIR_OUT == {0}

GPIO_PUD_MASK == {8, 9}

GPIO_PUD_PULL_UP == {8}

GPIO_PUD_PULL_DOWN == {9}

\* Flags words: the direction bit, both pull bits, and a bit of another field.
FlagsWords == SUBSET {0, 1, 8, 9}

Dests == {"null", "pincfg"}

\* The if chain with the output branch taking no account of the pull flags.
FlagsToConf_OutIgnoresPull(flags) ==
    LET direction == BitAnd(flags, GPIO_DIR_MASK)
        pud == BitAnd(flags, GPIO_PUD_MASK)
    IN  IF direction = GPIO_DIR_OUT THEN "DRIVE_PUSH_PULL"
        ELSE IF pud = GPIO_PUD_PULL_UP THEN "BIAS_PULL_UP"
        ELSE IF pud = GPIO_PUD_PULL_DOWN THEN "BIAS_PULL_DOWN"
        ELSE "BIAS_HIGH_IMPEDANCE"

\* direction = flags & GPIO_DIR_MASK; pud = flags & GPIO_PUD_MASK; the if chain.
FlagsToConf(flags) ==
    LET direction == BitAnd(flags, GPIO_DIR_MASK)
        pud == BitAnd(flags, GPIO_PUD_MASK)
    IN  IF direction = GPIO_DIR_OUT
        THEN IF pud = GPIO_PUD_PULL_UP THEN "DRIVE_PUSH_UP"
             ELSE IF pud = GPIO_PUD_PULL_DOWN THEN "DRIVE_PUSH_DOWN"
             ELSE "DRIVE_PUSH_PULL"
        ELSE IF pud = GPIO_PUD_PULL_UP THEN "BIAS_PULL_UP"
             ELSE IF pud = GPIO_PUD_PULL_DOWN THEN "BIAS_PULL_DOWN"
             ELSE "BIAS_HIGH_IMPEDANCE"

flags_to_conf_entry(c, flags, dest) ==
    /\ Enter(c, [NoArgs EXCEPT !.op = "flags_to_conf", !.flags = flags, !.dest = dest],
             NoLoc, "f2c_chk")
    /\ UNCHANGED lastVal

\* if (!pincfg) return -EINVAL;
flags_to_conf_einval(c) ==
    /\ pc[c] = "f2c_chk" /\ MayRun(c)
    /\ args[c].dest = "null"
    /\ Return(c, -EINVAL)
    /\ UNCHANGED <<gpio, syscfg, clock, args, loc, tmpreg, log, pre, after, rep, lastConf, lastVal, pincfg, raced>>

\* *pincfg = ...
flags_to_conf_store(c) ==
    /\ pc[c] = "f2c_chk" /\ MayRun(c)
    /\ args[c].dest # "null"
    /\ pincfg' = FlagsToConf(args[c].flags)
    /\ Logged(c, "w", "*pincfg")
    /\ Goto(c, "f2c_ret")
    /\ UNCHANGED <<gpio, syscfg, clock, args, loc, tmpreg, ret, ncalls, pre, after, rep, lastConf, lastVal, raced>>

\* return 0;
flags_to_conf_ret(c) ==
    /\ pc[c] = "f2c_ret" /\ MayRun(c)
    /\ Return(c, 0)
    /\ UNCHANGED <<gpio, syscfg, clock, args, loc, tmpreg, log, pre, after, rep, lastConf, lastVal, pincfg, raced>>

stm32_gpio_flags_to_conf(c) ==
    \/ flags_to_conf_einval(c)
    \/ flags_to_conf_store(c)
    \/ flags_to_conf_ret(c)

(***************************************************************************)
(* stm32_gpio_configure                                                    *)
(***************************************************************************)
\* The AF update without the clearing of the nibble.
AfrWord_NoClear(tmp, pin, altf) == BitOr(tmp, Shl(Word(altf), (pin % 8) * 4))

\* tmpreg &= ~(0xf << ((pin & 0x07) * 4)); tmpreg |= (altf << ((pin & 0x07) * 4));
AfrWord(tmp, pin, altf) ==
    BitOr(BitAnd(tmp, BitNot(Shl(Word(15), (pin % 8) * 4))), Shl(Word(altf), (pin % 8) * 4))

\* The mode update with the mask of a 4-bit field.
ModeWord_WideMask(tmp, pin, mode) ==
    BitOr(BitAnd(tmp, BitNot(Shl(Word(15), pin * 2))), Shl(Word(mode), pin * 2))

\* tmpreg &= ~(0x3 << (pin * 2)); tmpreg |= (mode << (pin * 2));
ModeWord(tmp, pin, mode) ==
    BitOr(BitAnd(tmp, BitNot(Shl(Word(3), pin * 2))), Shl(Word(mode), pin * 2))

\* The output-type update as a toggle: tmpreg ^= (otype << pin).
OtypeWord_Toggle(tmp, pin, otype) == BitXor(tmp, Shl(Word(otype), pin))

\* tmpreg &= ~(0x1 << pin); tmpreg |= (otype << pin);
OtypeWord(tmp, pin, otype) ==
    BitOr(BitAnd(tmp, BitNot(Shl(Word(1), pin))), Shl(Word(otype), pin))

\* tmpreg &= ~(0x3 << (pin * 2)); tmpreg |= (ospeed << (pin * 2));
OspeedWord(tmp, pin, ospeed) ==
    BitOr(BitAnd(tmp, BitNot(Shl(Word(3), pin * 2))), Shl(Word(ospeed), pin * 2))

\* The pull update under the zero-skip policy of the output type and the speed.
PupdWord_SkipZero(tmp, pin, pupd) ==
    IF pupd = 0 THEN tmp
    ELSE BitOr(BitAnd(tmp, BitNot(Shl(Word(3), pin * 2))), Shl(Word(pupd), pin * 2))

\* tmpreg &= ~(0x3 << (pin * 2)); tmpreg |= (pupd << (pin * 2));
PupdWord(tmp, pin, pupd) ==
    BitOr(BitAnd(tmp, BitNot(Shl(Word(3), pin * 2))), Shl(Word(pupd), pin * 2))

\* The alternate-function block entered whatever altf is.
AfterEntry_Always(altf) == "cfg_afr_rd"

\* The alternate-function block never entered.
AfterEntry_Never(altf) == "cfg_mode_rd"

\* if (altf)
AfterEntry(altf) == IF altf # 0 THEN "cfg_afr_rd" ELSE "cfg_mode_rd"

\* The speed block placed before the output-type block, which it then skips.
AfterMode_SpeedFirst(l) == IF l.ospeed # 0 THEN "cfg_ospeed_rd"
                           ELSE IF l.otype # 0 THEN "cfg_otype_rd" ELSE "cfg_pupdr_rd"

\* The output-type block entered whatever otype is.
AfterMode_AlwaysOtype(l) == "cfg_otype_rd"

\* if (otype) ... if (ospeed) ...
AfterMode(l) == IF l.otype # 0 THEN "cfg_otype_rd"
                ELSE IF l.ospeed # 0 THEN "cfg_ospeed_rd" ELSE "cfg_pupdr_rd"

AfterOtype(l) == IF l.ospeed # 0 THEN "cfg_ospeed_rd" ELSE "cfg_pupdr_rd"

configure_entry(c, pin, conf, altf) ==
    /\ Enter(c,
             [NoArgs EXCEPT !.op = "configure", !.pin = pin, !.conf = conf, !.altf = altf],
             [NoLoc EXCEPT !.mode = __func_to_mode(conf), !.otype = __func_to_otype(conf),
                           !.ospeed = __func_to_ospeed(conf), !.pupd = __func_to_pupd(conf)],
             AfterEntry(altf))
    /\ UNCHANGED lastVal

\* A volatile read of a register of the GPIO block into tmpreg.
GpioRead(c, name, word, next) ==
    /\ tmpreg' = [tmpreg EXCEPT ![c] = word]
    /\ Logged(c, "r", name)
    /\ Goto(c, next)
    /\ UNCHANGED <<gpio, syscfg, clock, args, loc, ret, ncalls, pre, after, rep, lastConf, lastVal, pincfg, raced>>

\* A write of tmpreg, as modified, to a register of the GPIO block.
GpioWrite(c, name, newgpio, word, next) ==
    /\ gpio' = newgpio
    /\ tmpreg' = [tmpreg EXCEPT ![c] = word]
    /\ Logged(c, "w", name)
    /\ Goto(c, next)
    /\ UNCHANGED <<syscfg, clock, args, loc, ret, ncalls, pre, after, rep, lastConf, lastVal, pincfg, raced>>

\* gpio->afr[pin >> 0x3]
AfrName(pin) == IF pin \div 8 = 0 THEN "afr[0]" ELSE "afr[1]"

configure_afr_rd(c) ==
    /\ pc[c] = "cfg_afr_rd" /\ MayRun(c)
    /\ GpioRead(c, AfrName(args[c].pin), gpio.afr[(args[c].pin \div 8) + 1], "cfg_afr_wr")

configure_afr_wr(c) ==
    /\ pc[c] = "cfg_afr_wr" /\ MayRun(c)
    /\ LET w == AfrWord(tmpreg[c], args[c].pin, args[c].altf)
       IN  GpioWrite(c, AfrName(args[c].pin), [gpio EXCEPT !.afr[(args[c].pin \div 8) + 1] = w], w,
                     "cfg_mode_rd")

configure_mode_rd(c) ==
    /\ pc[c] = "cfg_mode_rd" /\ MayRun(c)
    /\ GpioRead(c, "mode", gpio.mode, "cfg_mode_wr")

configure_mode_wr(c) ==
    /\ pc[c] = "cfg_mode_wr" /\ MayRun(c)
    /\ LET w == ModeWord(tmpreg[c], args[c].pin, loc[c].mode)
       IN  GpioWrite(c, "mode", [gpio EXCEPT !.mode = w], w, AfterMode(loc[c]))

configure_otype_rd(c) ==
    /\ pc[c] = "cfg_otype_rd" /\ MayRun(c)
    /\ GpioRead(c, "otype", gpio.otype, "cfg_otype_wr")

configure_otype_wr(c) ==
    /\ pc[c] = "cfg_otype_wr" /\ MayRun(c)
    /\ LET w == OtypeWord(tmpreg[c], args[c].pin, loc[c].otype)
       IN  GpioWrite(c, "otype", [gpio EXCEPT !.otype = w], w, AfterOtype(loc[c]))

configure_ospeed_rd(c) ==
    /\ pc[c] = "cfg_ospeed_rd" /\ MayRun(c)
    /\ GpioRead(c, "ospeed", gpio.ospeed, "cfg_ospeed_wr")

configure_ospeed_wr(c) ==
    /\ pc[c] = "cfg_ospeed_wr" /\ MayRun(c)
    /\ LET w == OspeedWord(tmpreg[c], args[c].pin, loc[c].ospeed)
       IN  GpioWrite(c, "ospeed", [gpio EXCEPT !.ospeed = w], w, "cfg_pupdr_rd")

configure_pupdr_rd(c) ==
    /\ pc[c] = "cfg_pupdr_rd" /\ MayRun(c)
    /\ GpioRead(c, "pupdr", gpio.pupdr, "cfg_pupdr_wr")

configure_pupdr_wr(c) ==
    /\ pc[c] = "cfg_pupdr_wr" /\ MayRun(c)
    /\ LET w == PupdWord(tmpreg[c], args[c].pin, loc[c].pupd)
       IN  GpioWrite(c, "pupdr", [gpio EXCEPT !.pupdr = w], w, "cfg_ret")

\* return 0;
configure_ret(c) ==
    /\ pc[c] = "cfg_ret" /\ MayRun(c)
    /\ Return(c, 0)
    /\ lastConf' = [lastConf EXCEPT ![args[c].pin] = args[c].conf]
    /\ UNCHANGED <<gpio, syscfg, clock, args, loc, tmpreg, log, pre, after, rep, lastVal, pincfg, raced>>

stm32_gpio_configure(c) ==
    \/ configure_afr_rd(c)
    \/ configure_afr_wr(c)
    \/ configure_mode_rd(c)
    \/ configure_mode_wr(c)
    \/ configure_otype_rd(c)
    \/ configure_otype_wr(c)
    \/ configure_ospeed_rd(c)
    \/ configure_ospeed_wr(c)
    \/ configure_pupdr_rd(c)
    \/ configure_pupdr_wr(c)
    \/ configure_ret(c)

(***************************************************************************)
(* stm32_gpio_set and stm32_gpio_get                                       *)
(***************************************************************************)
\* The reset branch without the + 0x10.
SetWord_NoOffset(pin, value) == Shl(Word(1), pin % 16)

\* A word that names every pin: the requested bit, and the reset bit of all others.
SetWord_ResetOthers(pin, value) ==
    {i \in Bits : IF i < 16 THEN i = pin % 16 /\ value # 0
                            ELSE ~(i - 16 = pin % 16 /\ value # 0)}

\* The word written to gpio->bsr: 1 << (pin & 0x0f), or 1 << ((pin & 0x0f) + 0x10).
SetWord(pin, value) ==
    IF value # 0 THEN Shl(Word(1), pin % 16) ELSE Shl(Word(1), (pin % 16) + 16)

\* The hardware's reaction to a write of w to the set/reset register: bit i of
\* the low half drives pin i high, bit i + 16 drives it low, set wins over reset.
BsrEffect(odr, w) == {i \in 0..15 : i \in w \/ (i \in odr /\ (i + 16) \notin w)}

\* (gpio->idr >> pin) & 0x1
\* The return expression without the shift: bit 0 whatever the pin.
GetBit_NoShift(idr, pin) == Field(BitAnd(idr, Word(1)), 0, 31)

GetBit(idr, pin) == Field(BitAnd(Shr(idr, pin), Word(1)), 0, 31)

set_entry(c, pin, value) ==
    /\ Enter(c, [NoArgs EXCEPT !.op = "set", !.pin = pin, !.value = value], NoLoc, "set_wr")
    /\ lastVal' = [lastVal EXCEPT ![pin] = IF value # 0 THEN 1 ELSE 0]

\* gpio->bsr = ...
set_wr(c) ==
    /\ pc[c] = "set_wr" /\ MayRun(c)
    /\ LET w == SetWord(args[c].pin, args[c].value)
       IN  gpio' = [gpio EXCEPT !.bsr = w, !.odr = BsrEffect(gpio.odr, w)]
    /\ Logged(c, "w", "bsr")
    /\ Goto(c, "set_ret")
    /\ UNCHANGED <<syscfg, clock, args, loc, tmpreg, ret, ncalls, pre, after, rep, lastConf, lastVal, pincfg, raced>>

set_ret(c) ==
    /\ pc[c] = "set_ret" /\ MayRun(c)
    /\ Return(c, 0)
    /\ UNCHANGED <<gpio, syscfg, clock, args, loc, tmpreg, log, pre, after, rep, lastConf, lastVal, pincfg, raced>>

stm32_gpio_set(c) ==
    \/ set_wr(c)
    \/ set_ret(c)

get_entry(c, pin) ==
    /\ Enter(c, [NoArgs EXCEPT !.op = "get", !.pin = pin], NoLoc, "get_rd")
    /\ UNCHANGED lastVal

get_rd(c) ==
    /\ pc[c] = "get_rd" /\ MayRun(c)
    /\ GpioRead(c, "idr", gpio.idr, "get_ret")

get_ret(c) ==
    /\ pc[c] = "get_ret" /\ MayRun(c)
    /\ Return(c, GetBit(tmpreg[c], args[c].pin))
    /\ UNCHANGED <<gpio, syscfg, clock, args, loc, tmpreg, log, pre, after, rep, lastConf, lastVal, pincfg, raced>>

stm32_gpio_get(c) ==
    \/ get_rd(c)
    \/ get_ret(c)

(***************************************************************************)
(* stm32_gpio_enable_int                                                   *)
(***************************************************************************)
\* The if chain on pin: the selector register, or "none" for the else branch.
ExticrOf(pin) ==
    IF pin <= 3 THEN "exticr1"
    ELSE IF pin <= 7 THEN "exticr2"
    ELSE IF pin <= 11 THEN "exticr3"
    ELSE IF pin <= 15 THEN "exticr4"
    ELSE "none"

\* shift = 4 * (pin % 4)
ShiftOf(pin) == 4 * (pin % 4)

\* The selector update without the clearing of the field.
ExticrClear_None(val, shift) == val

\* The first selector write clearing the whole register.
ExticrClear_WholeRegister(val, shift) == Zero32

\* exticr->val &= ~(0xf << shift)
ExticrClear(val, shift) == BitAnd(val, BitNot(Shl(Word(15), shift)))

\* exticr->val |= port << shift
ExticrSet(val, port, shift) == BitOr(val, Shl(Word(port), shift))

enable_int_entry(c, port, pin) ==
    /\ Enter(c, [NoArgs EXCEPT !.op = "enable_int", !.pin = pin, !.port = port], NoLoc,
             "int_clk")
    /\ UNCHANGED lastVal

\* clock_control_on(clk, &pclken)
enable_int_clk(c) ==
    /\ pc[c] = "int_clk" /\ MayRun(c)
    /\ clock' = TRUE
    /\ Logged(c, "call", "clock_control_on")
    /\ Goto(c, "int_sel")
    /\ UNCHANGED <<gpio, syscfg, args, loc, tmpreg, ret, ncalls, pre, after, rep, lastConf, lastVal, pincfg, raced>>

\* The if chain: pick the selector register and compute the shift.
enable_int_sel(c) ==
    /\ pc[c] = "int_sel" /\ MayRun(c)
    /\ ExticrOf(args[c].pin) # "none"
    /\ loc' = [loc EXCEPT ![c].exticr = ExticrOf(args[c].pin),
                          ![c].shift = ShiftOf(args[c].pin)]
    /\ Goto(c, "int_clr_rd")
    /\ UNCHANGED <<gpio, syscfg, clock, args, tmpreg, ret, log, ncalls, pre, after, rep, lastConf, lastVal, pincfg, raced>>

\* ... else return -EINVAL;
enable_int_einval(c) ==
    /\ pc[c] = "int_sel" /\ MayRun(c)
    /\ ExticrOf(args[c].pin) = "none"
    /\ Return(c, -EINVAL)
    /\ UNCHANGED <<gpio, syscfg, clock, args, loc, tmpreg, log, pre, after, rep, lastConf, lastVal, pincfg, raced>>

SyscfgRead(c, next) ==
    /\ tmpreg' = [tmpreg EXCEPT ![c] = syscfg[loc[c].exticr]]
    /\ Logged(c, "r", loc[c].exticr)
    /\ Goto(c, next)
    /\ UNCHANGED <<gpio, syscfg, clock, args, loc, ret, ncalls, pre, after, rep, lastConf, lastVal, pincfg, raced>>

SyscfgWrite(c, word, next) ==
    /\ syscfg' = [syscfg EXCEPT ![loc[c].exticr] = word]
    /\ tmpreg' = [tmpreg EXCEPT ![c] = word]
    /\ Logged(c, "w", loc[c].exticr)
    /\ Goto(c, next)
    /\ UNCHANGED <<gpio, clock, args, loc, ret, ncalls, pre, after, rep, lastConf, lastVal, pincfg, raced>>

enable_int_clr_rd(c) ==
    /\ pc[c] = "int_clr_rd" /\ MayRun(c)
    /\ SyscfgRead(c, "int_clr_wr")

enable_int_clr_wr(c) ==
    /\ pc[c] = "int_clr_wr" /\ MayRun(c)
    /\ SyscfgWrite(c, ExticrClear(tmpreg[c], loc[c].shift), "int_or_rd")

enable_int_or_rd(c) ==
    /\ pc[c] = "int_or_rd" /\ MayRun(c)
    /\ SyscfgRead(c, "int_or_wr")

enable_int_or_wr(c) ==
    /\ pc[c] = "int_or_wr" /\ MayRun(c)
    /\ SyscfgWrite(c, ExticrSet(tmpreg[c], args[c].port, loc[c].shift), "int_ret")

enable_int_ret(c) ==
    /\ pc[c] = "int_ret" /\ MayRun(c)
    /\ Return(c, 0)
    /\ UNCHANGED <<gpio, syscfg, clock, args, loc, tmpreg, log, pre, after, rep, lastConf, lastVal, pincfg, raced>>

stm32_gpio_enable_int(c) ==
    \/ enable_int_clk(c)
    \/ enable_int_sel(c)
    \/ enable_int_einval(c)
    \/ enable_int_clr_rd(c)
    \/ enable_int_clr_wr(c)
    \/ enable_int_or_rd(c)
    \/ enable_int_or_wr(c)
    \/ enable_int_ret(c)

(***************************************************************************)
(* Spec: the task makes one call, of any function with any arguments, from *)
(* any of the initial register contents, and may then repeat that call.    *)
(***************************************************************************)
MaxRepeat == 1

Call ==
    /\ pc["task"] = "idle"
    /\ UNCHANGED <<after, rep, raced>>
    /\ \/ \E pin \in Pins, conf \in Confs, altf \in AltFuncs :
             configure_entry("task", pin, conf, altf)
       \/ \E pin \in Pins, value \in Values : set_entry("task", pin, value)
       \/ \E pin \in Pins : get_entry("task", pin)
       \/ \E port \in Ports, pin \in IntPins : enable_int_entry("task", port, pin)
       \/ \E flags \in FlagsWords, dest \in Dests : flags_to_conf_entry("task", flags, dest)

\* The same call again, with the same arguments.
Repeat ==
    /\ pc["task"] = "done"
    /\ rep < MaxRepeat
    /\ rep' = rep + 1
    /\ after' = gpio
    /\ UNCHANGED raced
    /\ LET a == args["task"]
       IN  \/ a.op = "configure" /\ configure_entry("task", a.pin, a.conf, a.altf)
           \/ a.op = "set" /\ set_entry("task", a.pin, a.value)
           \/ a.op = "get" /\ get_entry("task", a.pin)
           \/ a.op = "enable_int" /\ enable_int_entry("task", a.port, a.pin)
           \/ a.op = "flags_to_conf" /\ flags_to_conf_entry("task", a.flags, a.dest)

Next ==
    \/ Call
    \/ Repeat
    \/ stm32_gpio_configure("task")
    \/ stm32_gpio_set("task")
    \/ stm32_gpio_get("task")
    \/ stm32_gpio_enable_int("task")
    \/ stm32_gpio_flags_to_conf("task")

Spec == Init /\ [][Next]_vars

(***************************************************************************)
(* SpecSeq: the task makes up to MaxCalls configure calls, one after the   *)
(* other, on a few pins with a few functions.                              *)
(***************************************************************************)
MaxCalls == 2

SeqPins == {5, 9, 15}

SeqConfs == {"BIAS_PULL_UP", "DRIVE_OPEN_DOWN", "AF_PUSH_PULL", "ANALOG", "UNDEFINED"}

SeqAltFuncs == {0, 7}

CallSeq ==
    /\ ncalls["task"] < MaxCalls
    /\ UNCHANGED <<after, rep, raced>>
    /\ \E pin \in SeqPins, conf \in SeqConfs, altf \in SeqAltFuncs :
          configure_entry("task", pin, conf, altf)

NextSeq ==
    \/ CallSeq
    \/ stm32_gpio_configure("task")

SpecSeq == Init /\ [][NextSeq]_vars

(***************************************************************************)
(* SpecIrq: the task and an interrupt handler both call stm32_gpio_set.    *)
(* The handler may start at any point of the task, a call of the task      *)
(* included, and runs to completion; while a call of the task is under     *)
(* way the handler works on another pin.                                   *)
(***************************************************************************)
IrqPins == {0, 3, 15}

IrqValues == {0, 1}

TaskSet ==
    /\ ncalls["task"] < MaxCalls
    /\ UNCHANGED <<after, rep, raced>>
    /\ \E pin \in IrqPins, value \in IrqValues : set_entry("task", pin, value)

IsrSet ==
    /\ ncalls["isr"] < MaxCalls
    /\ UNCHANGED <<after, rep, raced>>
    /\ \E pin \in IrqPins, value \in IrqValues :
          /\ Active("task") => pin # args["task"].pin
          /\ set_entry("isr", pin, value)

NextIrq ==
    \/ TaskSet
    \/ IsrSet
    \/ stm32_gpio_set("task")
    \/ stm32_gpio_set("isr")

SpecIrq == Init /\ [][NextIrq]_vars

(***************************************************************************)
(* Task and interrupt handler both calling stm32_gpio_configure on one     *)
(* port: the handler configures a pin other than the one of the task's     *)
(* running call, at any point of that call.                                *)
(***************************************************************************)
MaxCfgCalls == 1

\* Pins 2 and 5 share every register of the port, the alternate-function word
\* included.
CfgPins == {2, 5}

CfgConfs == {"BIAS_PULL_UP", "AF_OPEN_DOWN"}

CfgAltFuncs == {7}

\* The register the task has read and not yet written back ("none" outside
\* the read-modify-write windows).
WindowReg ==
    CASE pc["task"] = "cfg_afr_wr" -> AfrName(args["task"].pin)
      [] pc["task"] = "cfg_mode_wr" -> "mode"
      [] pc["task"] = "cfg_otype_wr" -> "otype"
      [] pc["task"] = "cfg_ospeed_wr" -> "ospeed"
      [] pc["task"] = "cfg_pupdr_wr" -> "pupdr"
      [] OTHER -> "none"

\* The field of pin in the word w of register reg.
RegField(reg, w, pin) ==
    CASE reg \in {"mode", "ospeed", "pupdr"} -> Field(w, 2 * pin, 2)
      [] reg = "otype" -> BitAt(w, pin)
      [] reg \in {"afr[0]", "afr[1]"} -> Field(w, 4 * (pin % 8), 4)

RegWord(g, reg) ==
    CASE reg = "afr[0]" -> g.afr[1]
      [] reg = "afr[1]" -> g.afr[2]
      [] OTHER -> g[reg]

\* Whether pin has a field in register reg.
HasField(reg, pin) == reg \in {"afr[0]", "afr[1]"} => reg = AfrName(pin)

TaskCfg ==
    /\ ncalls["task"] < MaxCfgCalls
    /\ UNCHANGED <<after, rep, raced>>
    /\ \E pin \in CfgPins, conf \in CfgConfs, altf \in CfgAltFuncs :
          configure_entry("task", pin, conf, altf)

\* The handler's call; when it starts inside a window of the task, raced gets
\* the register, the handler's pin, the value the task read for that pin's
\* field, and the number of the task's call.
IsrCfg ==
    /\ ncalls["isr"] < MaxCfgCalls
    /\ UNCHANGED <<after, rep>>
    /\ \E pin \in CfgPins, conf \in CfgConfs, altf \in CfgAltFuncs :
          /\ Active("task") => pin # args["task"].pin
          /\ configure_entry("isr", pin, conf, altf)
          /\ raced' = IF WindowReg # "none" /\ HasField(WindowReg, pin)
                      THEN raced \cup {[reg |-> WindowReg, pin |-> pin,
                                        old |-> RegField(WindowReg, tmpreg["task"], pin),
                                        call |-> ncalls["task"]]}
                      ELSE raced

NextIrqCfg ==
    \/ TaskCfg
    \/ IsrCfg
    \/ stm32_gpio_configure("task")
    \/ stm32_gpio_configure("isr")

SpecIrqCfg == Init /\ [][NextIrqCfg]_vars

(***************************************************************************)
(* Properties.                                                             *)
(***************************************************************************)
T == "task"

\* The task's call of function op has returned.
TaskDone(op) == pc[T] = "done" /\ args[T].op = op

\* Words a and b agree on every bit outside the w-bit field starting at bit s.
SameOutside(a, b, s, w) == a \ (s..(s + w - 1)) = b \ (s..(s + w - 1))

\* Bit b of word a is set and no other bit is.
OnlyBit(a, b) == a = {b}

IsPrefix(s, t) == Len(s) <= Len(t) /\ \A i \in 1..Len(s) : s[i] = t[i]

Range(s) == {s[i] : i \in 1..Len(s)}

ExticrNames == <<"exticr1", "exticr2", "exticr3", "exticr4">>

\* C1: stm32_gpio_enable_int with pin > 15 returns -EINVAL without having
\* invoked the clock enable and without having read or written a selector
\* register.
C1_InvalidPinNoSideEffect ==
    (TaskDone("enable_int") /\ args[T].pin > 15)
        => /\ ret[T] = -EINVAL
           /\ log[T] = <<>>
           /\ clock = pre.clock
           /\ syscfg = pre.syscfg

\* C2: every stm32_gpio_set call is one write to the set/reset register and no
\* read, and whatever the interleaving of the task's and the handler's calls,
\* each pin's output level is the value of the last set call made for it (once
\* that call has done its write).
C2_SetNoLostUpdate ==
    /\ \A c \in Ctx : (pc[c] \in {"set_ret", "done"} /\ args[c].op = "set")
                          => log[c] = << <<"w", "bsr">> >>
    /\ \A p \in Pins :
          (lastVal[p] # -1 /\ ~(\E c \in Ctx : pc[c] = "set_wr" /\ args[c].pin = p))
              => BitAt(gpio.odr, p) = lastVal[p]

\* The handler has set another pin between the entry and the write of a call
\* of the task, and both pins show the level asked for.
C2_Witness ==
    /\ pc[T] = "set_ret"
    /\ pc["isr"] = "done" /\ args["isr"].op = "set"
    /\ args["isr"].pin # args[T].pin
    /\ BitAt(gpio.odr, args["isr"].pin) # BitAt(pre.gpio.odr, args["isr"].pin)
    /\ BitAt(gpio.odr, args["isr"].pin) = lastVal[args["isr"].pin]
    /\ BitAt(gpio.odr, args[T].pin) # BitAt(pre.gpio.odr, args[T].pin)
    /\ BitAt(gpio.odr, args[T].pin) = lastVal[args[T].pin]

\* C3: stm32_gpio_configure run a second time with the same arguments leaves
\* the register block as the first run left it.
C3_ConfigureIdempotent ==
    (TaskDone("configure") /\ rep >= 1) => gpio = after

C3_Witness ==
    /\ TaskDone("configure") /\ rep >= 1
    /\ args[T].pin = 9 /\ args[T].conf = "AF_OPEN_UP" /\ args[T].altf = 7
    /\ Field(gpio.mode, 18, 2) = 2 /\ 9 \in gpio.otype
    /\ Field(gpio.afr[2], 4, 4) = 7
    /\ gpio # InitGpio(0)

\* C4: during and after stm32_gpio_configure(p, conf, altf) no bit changes
\* outside p's mode field, p's output-type bit, p's speed field, p's pull field
\* and p's AF nibble; the set/reset, input-data and output registers and the
\* interrupt selectors keep their contents and are not written.
C4_ConfigureFrame ==
    args[T].op = "configure" =>
        LET p == args[T].pin
            g == gpio
            o == pre.gpio
            w == (p \div 8) + 1
        IN  /\ SameOutside(g.mode, o.mode, 2 * p, 2)
            /\ SameOutside(g.otype, o.otype, p, 1)
            /\ SameOutside(g.ospeed, o.ospeed, 2 * p, 2)
            /\ SameOutside(g.pupdr, o.pupdr, 2 * p, 2)
            /\ SameOutside(g.afr[w], o.afr[w], (p % 8) * 4, 4)
            /\ g.afr[3 - w] = o.afr[3 - w]
            /\ g.bsr = o.bsr /\ g.idr = o.idr /\ g.odr = o.odr
            /\ syscfg = pre.syscfg
            /\ <<"w", "bsr">> \notin Range(log[T])
            /\ <<"w", "idr">> \notin Range(log[T])

\* A configure call that changed all five of the pin's fields.
C4_Witness ==
    /\ TaskDone("configure")
    /\ gpio.mode # pre.gpio.mode
    /\ gpio.otype # pre.gpio.otype
    /\ gpio.ospeed # pre.gpio.ospeed
    /\ gpio.pupdr # pre.gpio.pupdr
    /\ gpio.afr # pre.gpio.afr

\* C5: between serialized configure calls, every pin configured at least once
\* has mode field mode-of(f) and pull field pupd-of(f), f being the function of
\* its most recent configure; every call writes the pull register and returns 0.
C5_LastConfigureWins ==
    /\ ~Active(T) =>
          \A p \in Pins :
             lastConf[p] # "none" =>
                /\ Field(gpio.mode, 2 * p, 2) = __func_to_mode(lastConf[p])
                /\ Field(gpio.pupdr, 2 * p, 2) = __func_to_pupd(lastConf[p])
    /\ TaskDone("configure") => (ret[T] = 0 /\ <<"w", "pupdr">> \in Range(log[T]))

\* Pin 9 was configured, then pin 5 with a function whose pull code is 0 while
\* its pull field held another value.
C5_Witness ==
    /\ TaskDone("configure") /\ ncalls[T] = 2
    /\ args[T].pin = 5 /\ __func_to_pupd(args[T].conf) = 0
    /\ Field(pre.gpio.pupdr, 10, 2) # 0
    /\ Field(gpio.pupdr, 10, 2) = 0
    /\ lastConf[9] \notin {"none", args[T].conf}

\* C6: for an alternate-function code 1..15, after stm32_gpio_configure the
\* nibble at bit (pin mod 8) * 4 of AF word pin / 8 is the code, and every
\* other nibble of both AF words is as before.
C6_AfNibbleWritten ==
    (TaskDone("configure") /\ args[T].altf # 0) =>
        LET p == args[T].pin
            w == (p \div 8) + 1
        IN  /\ Field(gpio.afr[w], (p % 8) * 4, 4) = args[T].altf
            /\ SameOutside(gpio.afr[w], pre.gpio.afr[w], (p % 8) * 4, 4)
            /\ gpio.afr[3 - w] = pre.gpio.afr[3 - w]

\* Pin 9 with code 0x7 over a nibble that held another non-zero code: bits
\* [7:4] of the second AF word are 0111.
C6_Witness ==
    /\ TaskDone("configure") /\ args[T].pin = 9 /\ args[T].altf = 7
    /\ Field(pre.gpio.afr[2], 4, 4) \notin {0, 7}
    /\ gpio.afr[2] \cap (4..7) = {4, 5, 6}

\* C7 as stated: from the reset state, configuring a pin as drive-push-pull with
\* no alternate function gives mode 01, output type 0, speed bits left unset and
\* pull 00.
C7_PushPullSpeedUnset ==
    (TaskDone("configure") /\ args[T].conf = "DRIVE_PUSH_PULL" /\ args[T].altf = 0
        /\ pre.gpio = InitGpio(0)) =>
        LET p == args[T].pin
        IN  /\ Field(gpio.mode, 2 * p, 2) = 1
            /\ p \notin gpio.otype
            /\ Field(gpio.ospeed, 2 * p, 2) = 0
            /\ Field(gpio.pupdr, 2 * p, 2) = 0

\* C7: from the reset state, configuring a pin as drive-push-pull with no
\* alternate function gives mode 01, output type 0, speed 10 (the forced fast
\* speed, 0x2) and pull 00, and changes nothing else.
C7_PushPullFromReset ==
    (TaskDone("configure") /\ args[T].conf = "DRIVE_PUSH_PULL" /\ args[T].altf = 0
        /\ pre.gpio = InitGpio(0)) =>
        LET p == args[T].pin
        IN  /\ Field(gpio.mode, 2 * p, 2) = 1
            /\ p \notin gpio.otype
            /\ Field(gpio.ospeed, 2 * p, 2) = 2
            /\ Field(gpio.pupdr, 2 * p, 2) = 0
            /\ gpio.otype = Zero32 /\ gpio.pupdr = Zero32 /\ gpio.afr = <<Zero32, Zero32>>
            /\ SameOutside(gpio.mode, Zero32, 2 * p, 2)
            /\ SameOutside(gpio.ospeed, Zero32, 2 * p, 2)

C7_Witness ==
    /\ TaskDone("configure") /\ args[T].conf = "DRIVE_PUSH_PULL" /\ args[T].altf = 0
    /\ args[T].pin = 5 /\ pre.gpio = InitGpio(0)
    /\ gpio.mode = {10}
    /\ gpio.ospeed = {11}

\* The accesses stm32_gpio_configure(pin, conf, altf) is to make, in order.
ExpectedLog(pin, conf, altf) ==
    (IF altf # 0 THEN << <<"r", AfrName(pin)>>, <<"w", AfrName(pin)>> >> ELSE <<>>)
    \o << <<"r", "mode">>, <<"w", "mode">> >>
    \o (IF __func_to_otype(conf) # 0 THEN << <<"r", "otype">>, <<"w", "otype">> >> ELSE <<>>)
    \o (IF __func_to_ospeed(conf) # 0 THEN << <<"r", "ospeed">>, <<"w", "ospeed">> >> ELSE <<>>)
    \o << <<"r", "pupdr">>, <<"w", "pupdr">> >>

\* C8: stm32_gpio_configure accesses the registers in this order: the AF word
\* (only when altf is non-zero), mode, output type (only when otype-of(f) is
\* non-zero), speed (only when ospeed-of(f) is non-zero), pull; each is read
\* once and then written once, and nothing else is accessed.
C8_WriteOrder ==
    args[T].op = "configure" =>
        LET e == ExpectedLog(args[T].pin, args[T].conf, args[T].altf)
        IN  /\ IsPrefix(log[T], e)
            /\ pc[T] = "done" => log[T] = e

\* A call that wrote all five registers.
C8_Witness ==
    /\ TaskDone("configure") /\ Len(log[T]) = 10
    /\ log[T][2] = <<"w", "afr[1]">> /\ log[T][6] = <<"w", "otype">>

\* C9: for pin 0..15, stm32_gpio_enable_int(port, pin) returns 0 and leaves
\* port in the 4-bit field at (pin mod 4) * 4 of selector register pin / 4, the
\* rest of that register and the three other registers being as before.
C9_ExticrField ==
    (TaskDone("enable_int") /\ args[T].pin <= 15) =>
        LET r == ExticrNames[(args[T].pin \div 4) + 1]
            s == (args[T].pin % 4) * 4
        IN  /\ ret[T] = 0
            /\ Field(syscfg[r], s, 4) = args[T].port
            /\ SameOutside(syscfg[r], pre.syscfg[r], s, 4)
            /\ \A n \in 1..4 : ExticrNames[n] # r
                                  => syscfg[ExticrNames[n]] = pre.syscfg[ExticrNames[n]]

\* Pin 7, port 5: bits [15:12] of the second selector register, which held
\* another non-zero port.
C9_Witness ==
    /\ TaskDone("enable_int") /\ args[T].pin = 7 /\ args[T].port = 5
    /\ Field(pre.syscfg.exticr2, 12, 4) \notin {0, 5}
    /\ Field(syscfg.exticr2, 12, 4) = 5

\* C10: the word stm32_gpio_set writes to the set/reset register has exactly
\* one bit set, bit pin for a non-zero value and bit pin + 16 for zero; the call
\* returns 0 and accesses no other register.
C10_SetWritesOneBit ==
    TaskDone("set") =>
        /\ ret[T] = 0
        /\ log[T] = << <<"w", "bsr">> >>
        /\ OnlyBit(gpio.bsr, IF args[T].value # 0 THEN args[T].pin ELSE args[T].pin + 16)
        /\ [gpio EXCEPT !.bsr = Zero32, !.odr = Zero32]
              = [pre.gpio EXCEPT !.bsr = Zero32, !.odr = Zero32]
        /\ syscfg = pre.syscfg

C10_Witness ==
    /\ TaskDone("set") /\ args[T].pin = 3 /\ args[T].value = 0
    /\ 19 \in gpio.bsr /\ 3 \notin gpio.bsr
    /\ 3 \in pre.gpio.odr /\ 3 \notin gpio.odr

\* The function the rule table gives for a flags word: the direction is output
\* when the direction bits equal the output flag, the pull is up or down when
\* the pull bits equal that flag, and none otherwise.
TableConf(flags) ==
    LET out == BitAnd(flags, GPIO_DIR_MASK) = GPIO_DIR_OUT
        up == BitAnd(flags, GPIO_PUD_MASK) = GPIO_PUD_PULL_UP
        down == BitAnd(flags, GPIO_PUD_MASK) = GPIO_PUD_PULL_DOWN
    IN  CASE out /\ up -> "DRIVE_PUSH_UP"
          [] out /\ down -> "DRIVE_PUSH_DOWN"
          [] out /\ ~up /\ ~down -> "DRIVE_PUSH_PULL"
          [] ~out /\ up -> "BIAS_PULL_UP"
          [] ~out /\ down -> "BIAS_PULL_DOWN"
          [] ~out /\ ~up /\ ~down -> "BIAS_HIGH_IMPEDANCE"

\* C11: stm32_gpio_flags_to_conf with a non-null destination returns 0 and
\* stores the function of the rule table for the direction and pull flags
\* (anything but a recognized flag counting as input, or as no pull), touching
\* no register; with a null destination it returns -EINVAL and stores nothing.
C11_FlagsToConf ==
    /\ (TaskDone("flags_to_conf") /\ args[T].dest # "null")
          => /\ ret[T] = 0
             /\ pincfg = TableConf(args[T].flags)
             /\ log[T] = << <<"w", "*pincfg">> >>
             /\ gpio = pre.gpio /\ syscfg = pre.syscfg /\ clock = pre.clock
    /\ (args[T].op = "flags_to_conf" /\ args[T].dest = "null")
          => /\ pincfg = "UNWRITTEN"
             /\ log[T] = <<>>
             /\ pc[T] = "done" => ret[T] = -EINVAL

\* Output with pull-down and a bit of another field set: drive push-pull with
\* pull-down is stored.
C11_Witness ==
    /\ TaskDone("flags_to_conf") /\ args[T].dest = "pincfg"
    /\ args[T].flags = {0, 1, 9}
    /\ pincfg = "DRIVE_PUSH_DOWN" /\ ret[T] = 0

\* The mode, output-type, speed and pull codes of each variant, row by row.
FieldRow(f) ==
    CASE f = "BIAS_HIGH_IMPEDANCE" -> <<0, 0, 0, 0>>
      [] f = "BIAS_PULL_UP"        -> <<0, 0, 0, 1>>
      [] f = "BIAS_PULL_DOWN"      -> <<0, 0, 0, 2>>
      [] f = "DRIVE_PUSH_PULL"     -> <<1, 0, 2, 0>>
      [] f = "DRIVE_PUSH_UP"       -> <<1, 0, 2, 1>>
      [] f = "DRIVE_PUSH_DOWN"     -> <<1, 0, 2, 2>>
      [] f = "DRIVE_OPEN_DRAIN"    -> <<1, 1, 2, 0>>
      [] f = "DRIVE_OPEN_UP"       -> <<1, 1, 2, 1>>
      [] f = "DRIVE_OPEN_DOWN"     -> <<1, 1, 2, 2>>
      [] f = "AF_PUSH_PULL"        -> <<2, 0, 2, 0>>
      [] f = "AF_PUSH_UP"          -> <<2, 0, 2, 1>>
      [] f = "AF_PUSH_DOWN"        -> <<2, 0, 2, 2>>
      [] f = "AF_OPEN_DRAIN"       -> <<2, 1, 2, 0>>
      [] f = "AF_OPEN_UP"          -> <<2, 1, 2, 1>>
      [] f = "AF_OPEN_DOWN"        -> <<2, 1, 2, 2>>
      [] f = "ANALOG"              -> <<3, 0, 0, 0>>
      [] OTHER                     -> <<0, 0, 0, 0>>

\* How many of the 16 variants a classifier sends to code v.
CountMode(v) == Cardinality({f \in PinFuncs : __func_to_mode(f) = v})

CountOtype(v) == Cardinality({f \in PinFuncs : __func_to_otype(f) = v})

CountOspeed(v) == Cardinality({f \in PinFuncs : __func_to_ospeed(f) = v})

CountPupd(v) == Cardinality({f \in PinFuncs : __func_to_pupd(f) = v})

\* C12: the four classifiers are total and give every variant the codes of the
\* classifier table: mode 0 for the 3 bias variants, 1 for the 6 plain drive
\* variants, 2 for the 6 alternate-function variants, 3 for analog; output type
\* 1 for exactly the 6 open-drain variants; speed 2 for exactly the 12 drive and
\* alternate-function variants; pull 1 for exactly the 5 pull-up and 2 for
\* exactly the 5 pull-down variants; a value outside the enumeration gets 0
\* from all four.
C12_ClassifierTable ==
    args[T].op = "configure" =>
        /\ <<loc[T].mode, loc[T].otype, loc[T].ospeed, loc[T].pupd>> = FieldRow(args[T].conf)
        /\ args[T].conf \notin PinFuncs
              => loc[T].mode = 0 /\ loc[T].otype = 0 /\ loc[T].ospeed = 0 /\ loc[T].pupd = 0
        /\ CountMode(loc[T].mode) = (CASE loc[T].mode = 0 -> 3 [] loc[T].mode = 1 -> 6
                                       [] loc[T].mode = 2 -> 6 [] loc[T].mode = 3 -> 1)
        /\ CountOtype(loc[T].otype) = (IF loc[T].otype = 1 THEN 6 ELSE 10)
        /\ CountOspeed(loc[T].ospeed) = (IF loc[T].ospeed = 2 THEN 12 ELSE 4)
        /\ CountPupd(loc[T].pupd) = (CASE loc[T].pupd = 0 -> 6 [] loc[T].pupd = 1 -> 5
                                       [] loc[T].pupd = 2 -> 5)

\* The analog variant has been classified and programmed: mode 3, the other
\* three codes 0.
C12_Witness ==
    /\ TaskDone("configure") /\ args[T].conf = "ANALOG" /\ args[T].pin = 4
    /\ loc[T].mode = 3 /\ loc[T].otype = 0 /\ loc[T].ospeed = 0 /\ loc[T].pupd = 0
    /\ Field(gpio.mode, 8, 2) = 3
    /\ Field(pre.gpio.mode, 8, 2) # 3

\* C13: stm32_gpio_get returns the bit of the input data register at position
\* pin, as 0 or 1, for every pin 0..15, after one read of that register and no
\* write of any register.
C13_GetReturnsIdrBit ==
    TaskDone("get") =>
        /\ ret[T] = (IF args[T].pin \in pre.gpio.idr THEN 1 ELSE 0)
        /\ log[T] = << <<"r", "idr">> >>
        /\ gpio = pre.gpio
        /\ syscfg = pre.syscfg /\ clock = pre.clock

\* Pin 15 reads 1 while bit 0 of the register is 0.
C13_Witness ==
    /\ TaskDone("get") /\ args[T].pin = 15
    /\ ret[T] = 1
    /\ 15 \in gpio.idr /\ 0 \notin gpio.idr

AfrNames == {"afr[0]", "afr[1]"}

\* C17: stm32_gpio_configure with altf = 0 neither reads nor writes either
\* alternate-function word, whatever the function (the six alternate-function
\* variants included); the pin's nibble keeps its previous value.
C17_NoAltfNoAfrAccess ==
    (args[T].op = "configure" /\ args[T].altf = 0) =>
        /\ \A i \in 1..Len(log[T]) : log[T][i][2] \notin AfrNames
        /\ gpio.afr = pre.gpio.afr

\* An alternate-function variant with altf = 0 on pin 9: the mode field is 0x2
\* and the nibble is the non-zero one found at entry.
C17_Witness ==
    /\ TaskDone("configure") /\ args[T].conf = "AF_OPEN_UP" /\ args[T].altf = 0
    /\ args[T].pin = 9
    /\ Field(gpio.mode, 18, 2) = 2
    /\ Field(gpio.afr[2], 4, 4) = Field(pre.gpio.afr[2], 4, 4)
    /\ Field(gpio.afr[2], 4, 4) # 0

\* The mode field and the alternate-function nibble of pin p in a GPIO block.
ModeField(g, p) == Field(g.mode, 2 * p, 2)

AfNibble(g, p) == Field(g.afr[(p \div 8) + 1], 4 * (p % 8), 4)

\* C15: while stm32_gpio_configure runs with an alternate-function variant and
\* a non-zero code on a pin whose mode field was not 0x2 at entry, in every
\* state where the mode field is 0x2 the pin's nibble already holds the code;
\* with a variant that is not an alternate function, the mode field is 0x2 in
\* no state of the call unless it was at entry.
C15_NoGlitch ==
    args[T].op = "configure" =>
        LET p == args[T].pin
        IN  /\ (args[T].conf \in AfFuncs /\ args[T].altf # 0
                   /\ ModeField(pre.gpio, p) # 2 /\ ModeField(gpio, p) = 2)
                  => AfNibble(gpio, p) = args[T].altf
            /\ (args[T].conf \notin AfFuncs /\ ModeField(pre.gpio, p) # 2)
                  => ModeField(gpio, p) # 2

\* In the middle of a call (the pull register not yet read) for pin 3 with
\* code 7: the mode field has just become 0x2 and the nibble, which held
\* another code at entry, holds 7.
C15_Witness ==
    /\ args[T].op = "configure" /\ pc[T] = "cfg_pupdr_rd"
    /\ args[T].conf = "AF_PUSH_DOWN" /\ args[T].altf = 7 /\ args[T].pin = 3
    /\ ModeField(pre.gpio, 3) # 2 /\ ModeField(gpio, 3) = 2
    /\ AfNibble(pre.gpio, 3) # 7 /\ AfNibble(gpio, 3) = 7

ClockCall == <<"call", "clock_control_on">>

\* C18: stm32_gpio_enable_int for a pin 0..15 invokes the clock enable before
\* any access to a selector register, then updates the selector register with
\* two separate read-modify-write accesses: between the two writes the pin's
\* field is 0 and every other field is as at entry; the field equals port only
\* once the second write is done.
C18_ClockThenTwoWrites ==
    (args[T].op = "enable_int" /\ args[T].pin <= 15) =>
        LET r == ExticrNames[(args[T].pin \div 4) + 1]
            s == (args[T].pin % 4) * 4
            rd == <<"r", r>>
            wr == <<"w", r>>
            others == \A n \in 1..4 : ExticrNames[n] # r
                          => syscfg[ExticrNames[n]] = pre.syscfg[ExticrNames[n]]
        IN  /\ pc[T] = "int_clk" => log[T] = <<>> /\ syscfg = pre.syscfg
            /\ pc[T] # "int_clk" => clock /\ IsPrefix(<<ClockCall>>, log[T])
            /\ pc[T] \in {"int_sel", "int_clr_rd", "int_clr_wr"} => syscfg = pre.syscfg
            /\ pc[T] \in {"int_or_rd", "int_or_wr"}
                  => /\ Field(syscfg[r], s, 4) = 0
                     /\ SameOutside(syscfg[r], pre.syscfg[r], s, 4)
                     /\ others
                     /\ IsPrefix(<<ClockCall, rd, wr>>, log[T])
            /\ pc[T] \in {"int_ret", "done"}
                  => /\ Field(syscfg[r], s, 4) = args[T].port
                     /\ SameOutside(syscfg[r], pre.syscfg[r], s, 4)
                     /\ others
                     /\ log[T] = <<ClockCall, rd, wr, rd, wr>>

\* Between the two writes for pin 7 and port 5: bits [15:12] of the second
\* selector register, which held another port at entry, are 0 and the other
\* three fields still hold their non-zero ports.
C18_Witness ==
    /\ args[T].op = "enable_int" /\ args[T].pin = 7 /\ args[T].port = 5
    /\ pc[T] = "int_or_rd"
    /\ Field(pre.syscfg.exticr2, 12, 4) \notin {0, 5}
    /\ Field(syscfg.exticr2, 12, 4) = 0
    /\ Field(syscfg.exticr2, 0, 12) = Field(pre.syscfg.exticr2, 0, 12)
    /\ Field(syscfg.exticr2, 0, 12) # 0

OpenDrainFuncs == {"DRIVE_OPEN_DRAIN", "DRIVE_OPEN_UP", "DRIVE_OPEN_DOWN",
                   "AF_OPEN_DRAIN", "AF_OPEN_UP", "AF_OPEN_DOWN"}

NoAccess(c, name) == \A i \in 1..Len(log[c]) : log[c][i][2] # name

\* C14: when otype-of(f) is 0 stm32_gpio_configure neither reads nor writes
\* the output-type register, and when ospeed-of(f) is 0 it neither reads nor
\* writes the speed register.  So, in a call for a pin whose previous configure
\* call had an open-drain variant, a push-pull, bias or analog variant leaves
\* the pin's output-type bit 1; and in a call for a pin whose previous call had
\* a drive or alternate-function variant, a bias or analog variant leaves the
\* pin's speed field 0x2.  (lastConf holds the function of the previous call
\* until the running one returns.)
C14_ZeroSkip ==
    (args[T].op = "configure" /\ pc[T] # "done") =>
        LET p == args[T].pin
            f == args[T].conf
        IN  /\ loc[T].otype = 0
                  => NoAccess(T, "otype") /\ gpio.otype = pre.gpio.otype
            /\ loc[T].ospeed = 0
                  => NoAccess(T, "ospeed") /\ gpio.ospeed = pre.gpio.ospeed
            /\ (lastConf[p] \in OpenDrainFuncs /\ f \in PinFuncs \ OpenDrainFuncs)
                  => p \in gpio.otype
            /\ (lastConf[p] \in DriveFuncs \cup AfFuncs /\ f \in BiasFuncs \cup {"ANALOG"})
                  => Field(gpio.ospeed, 2 * p, 2) = 2

\* Pin 5 was configured open-drain from the reset state and is now, all
\* register accesses of the second call made, an input with pull-up: the
\* output-type bit is still 1 and the speed field still 0x2.
C14_Witness ==
    /\ args[T].op = "configure" /\ pc[T] = "cfg_ret" /\ ncalls[T] = 1
    /\ args[T].pin = 5 /\ args[T].conf = "BIAS_PULL_UP"
    /\ lastConf[5] = "DRIVE_OPEN_DOWN"
    /\ gpio.otype = {5}
    /\ gpio.ospeed = {11}
    /\ Field(gpio.mode, 10, 2) = 0 /\ Field(gpio.pupdr, 10, 2) = 1

Quiescent == \A c \in Ctx : ~Active(c)

\* Every configured pin shows the mode and pull codes of the function of its
\* last completed call (and the output-type and speed codes, when not 0).
UpdatesPreserved ==
    \A p \in Pins :
        lastConf[p] # "none" =>
            /\ Field(gpio.mode, 2 * p, 2) = FieldRow(lastConf[p])[1]
            /\ Field(gpio.pupdr, 2 * p, 2) = FieldRow(lastConf[p])[4]
            /\ FieldRow(lastConf[p])[2] = 1 => p \in gpio.otype
            /\ FieldRow(lastConf[p])[3] = 2 => Field(gpio.ospeed, 2 * p, 2) = 2

\* The task's call during which race e was recorded is running past its
\* write-back of e.reg, or is the last call the task completed.
WrittenBack(e) ==
    /\ <<"w", e.reg>> \in Range(log[T])
    /\ \/ Active(T) /\ ncalls[T] = e.call
       \/ pc[T] = "done" /\ ncalls[T] = e.call + 1

\* C16: stm32_gpio_configure is not internally synchronized.  When a call of
\* the handler for pin q has run between the task's read and write-back of a
\* register, the task's write-back puts back the value it had read for q's
\* field (checked while that call of the handler is the only one made); when
\* no call of the handler has started inside such a window, every pin's
\* update is preserved.
C16_LostUpdateUnlessSerialized ==
    /\ (Quiescent /\ raced = {}) => UpdatesPreserved
    /\ \A e \in raced :
          (ncalls["isr"] = 1 /\ ~Active("isr") /\ WrittenBack(e))
              => RegField(e.reg, RegWord(gpio, e.reg), e.pin) = e.old

\* Lost update: the handler configured pin 5 as alternate function between
\* the task's read and write-back of the mode register for pin 2; both calls
\* have returned, and pin 5's mode field is the old one, not 0x2.
C16_Witness ==
    /\ Quiescent
    /\ lastConf[5] = "AF_OPEN_DOWN" /\ lastConf[2] # "none"
    /\ \E e \in raced : e.reg = "mode" /\ e.pin = 5 /\ e.old = Field(gpio.mode, 10, 2)
    /\ Field(gpio.mode, 10, 2) # 2
    /\ ~UpdatesPreserved

====
